---- MODULE Spec2Model ----
(***************************************************************************)
(* Model of the spawn-notification scheduler: SpawnSchedulerManager        *)
(* (scheduler_manager.py), the parts of DiscordBot that drive it (bot.py)  *)
(* and the schedule table (config.py).                                     *)
(*                                                                         *)
(* Time is an integer count of seconds since 00:00:00 on day 1 of the      *)
(* month in which the process starts; that month has `dim` days.  A        *)
(* datetime is the record [day, hour, minute, second] the code works on;   *)
(* Abs converts it to seconds.  The reference timezone is taken at a fixed *)
(* UTC offset, and sub-second parts of `now` are dropped.                  *)
(***************************************************************************)
EXTENDS Integers, Sequences, FiniteSets, TLC

\* ---------------------------------------------------------------- bounds
MaxIntervalHours == 37
MaxElapsedHours == 2
MaxMissed == 2

\* ------------------------------------------------------- program constants
START_HOUR == 12
START_MINUTE == 10
FollowupMinutes == 5
MisfireGraceTime == 60
MaxInstances == 1
HourSeconds == 3600
DaySeconds == 86400

SPAWN_CONFIGS ==
    << [name |-> "Temintia Misterioasa V5", interval_hours |-> 2,
        job_id |-> "temintia_spawn", followup_job_id |-> "temintia_followup"],
       [name |-> "Pustietate", interval_hours |-> 3,
        job_id |-> "pustietate_spawn", followup_job_id |-> "pustietate_followup"],
       [name |-> "Canionul Nordic", interval_hours |-> 4,
        job_id |-> "canion_spawn", followup_job_id |-> "canion_followup"] >>

\* ---------------------------------------------------------------- datetime
Abs(dt) == (dt.day - 1) * DaySeconds + dt.hour * HourSeconds + dt.minute * 60 + dt.second

DateTimeOf(t) ==
    [day |-> (t \div DaySeconds) + 1,
     hour |-> (t % DaySeconds) \div HourSeconds,
     minute |-> (t % HourSeconds) \div 60,
     second |-> t % 60]

\* now_bucharest.replace(hour=START_TIME.hour, minute=START_TIME.minute, second=0, microsecond=0)
AnchorOf(nowdt) ==
    [day |-> nowdt.day, hour |-> START_HOUR, minute |-> START_MINUTE, second |-> 0]

\* the same with the "+ 1" forgotten
IntervalsPassedNoNext(nowdt, interval_hours) ==
    (Abs(nowdt) - Abs(AnchorOf(nowdt))) \div (HourSeconds * interval_hours)

\* int(hours_passed // interval_hours) + 1, hours_passed = total_seconds() / 3600;
\* the floor division rounds towards minus infinity for a negative
\* interval_hours (a zero interval_hours never gets here, see FirstFire)
IntervalsPassed(nowdt, interval_hours) ==
    IF interval_hours > 0
    THEN ((Abs(nowdt) - Abs(AnchorOf(nowdt))) \div (HourSeconds * interval_hours)) + 1
    ELSE LET p == HourSeconds * (0 - interval_hours) IN
         (0 - ((Abs(nowdt) - Abs(AnchorOf(nowdt)) + p - 1) \div p)) + 1

\* START_TIME.hour + intervals_passed * interval_hours
TargetHour(nowdt, interval_hours) ==
    START_HOUR + IntervalsPassed(nowdt, interval_hours) * interval_hours

\* datetime.replace(day=...) raises ValueError when the day is not in the month
ValidDay(d, daysInMonth) == d >= 1 /\ d <= daysInMonth

\* the anchor kept as first-fire time also when it equals now
AnchorPassedStrictly(anchor, nowdt) == Abs(anchor) < Abs(nowdt)

\* if start_datetime <= now_bucharest
AnchorPassed(anchor, nowdt) == Abs(anchor) <= Abs(nowdt)

\* The first-fire computation of _add_spawn_schedule: [ok, dt]; ok = FALSE
\* stands for the ValueError raised by replace() or the ZeroDivisionError
\* raised by hours_passed // 0.
FirstFire(nowdt, daysInMonth, interval_hours) ==
    LET anchor == AnchorOf(nowdt) IN
    IF ~AnchorPassed(anchor, nowdt)
    THEN [ok |-> TRUE, dt |-> anchor]
    ELSE IF interval_hours = 0
    THEN [ok |-> FALSE, dt |-> anchor]
    ELSE LET th == TargetHour(nowdt, interval_hours)
             s1 == [anchor EXCEPT !.hour = th % 24]
         IN IF th >= 24
            THEN LET newday == s1.day + (th \div 24) IN
                 IF ValidDay(newday, daysInMonth)
                 THEN [ok |-> TRUE, dt |-> [s1 EXCEPT !.day = newday, !.hour = th % 24]]
                 ELSE [ok |-> FALSE, dt |-> s1]
            ELSE [ok |-> TRUE, dt |-> s1]

\* the offset taken in seconds instead of minutes
FollowupStartSeconds(start_abs) == start_abs + FollowupMinutes

\* followup_start_datetime = start_datetime + timedelta(minutes=5)
FollowupStart(start_abs) == start_abs + FollowupMinutes * 60

\* IntervalTrigger(hours=interval_hours, ...): the length of the interval in
\* seconds; the trigger turns a zero interval into one second and takes a
\* negative one as it is
IntervalSeconds(interval_hours) ==
    IF interval_hours = 0 THEN 1 ELSE interval_hours * HourSeconds

\* ------------------------------------------------------------------- state
VARIABLES
    now,               \* the clock: datetime.now(BUCHAREST_TZ), in seconds
    dim,               \* number of days of the month the process starts in
    configs,           \* the schedule table handed to setup_schedules
    deferred_shutdown, \* whether the scheduler build runs shutdown() via the event
                       \* loop ("deferred") or at once ("immediate"); nothing depends
                       \* on it before the first shutdown(), where it is settled
    pc,                \* position of DiscordBot.setup_hook
    is_running,        \* SpawnSchedulerManager.is_running
    sched_state,       \* state of the underlying AsyncIOScheduler
    pending_jobs,      \* jobs added while the scheduler is stopped
    jobstore,          \* jobs of the running scheduler, keyed by id
    tasks,             \* job coroutines created by the executor and not yet done
    shutdown_pending,  \* a shutdown() call queued on the event loop
    stop_returned,     \* stop() has returned and start() was not called since
    target_channel,    \* DiscordBot.target_channel is set
    skipped,           \* occurrences <<id, run time>> skipped for max_instances
    last_called,       \* per job id: run time of the last message_callback call
    ev                 \* the last operation: its kind, outcome and per-job results

vars == << now, dim, configs, deferred_shutdown, pc, is_running, sched_state,
           pending_jobs, jobstore, tasks, shutdown_pending, stop_returned,
           target_channel, skipped, last_called, ev >>

JobIdsOf(cs) ==
    {cs[i].job_id : i \in DOMAIN cs} \cup {cs[i].followup_job_id : i \in DOMAIN cs}

\* the record of an operation: kind, whether it raised, whether it was a
\* no-op, and for each job it touched [due, rt, late, res]
Event(kind, raised, noop, jobs) ==
    [kind |-> kind, raised |-> raised, noop |-> noop, jobs |-> jobs]

\* AsyncIOScheduler(timezone=BUCHAREST_TZ): no job yet
EmptyStore == [j \in {} |-> 0]

\* SpawnSchedulerManager.__init__ and DiscordBot.__init__
InitManager ==
    /\ pc = "setup"
    /\ is_running = FALSE
    /\ sched_state = "STATE_STOPPED"
    /\ pending_jobs = << >>
    /\ jobstore = EmptyStore
    /\ tasks = {}
    /\ shutdown_pending = FALSE
    /\ stop_returned = FALSE
    /\ target_channel = FALSE
    /\ skipped = {}
    /\ last_called = [j \in JobIdsOf(configs) |-> -1]
    /\ ev = Event("init", FALSE, FALSE, << >>)

\* Start instants of the process: <<day, hour, minute, second>>
StartInstants ==
    { <<1, 11, 0, 0>>, <<1, 14, 0, 0>>, <<30, 21, 30, 0>>, <<30, 23, 0, 0>> }

Init ==
    /\ dim = 30
    /\ \E s \in StartInstants :
          now = Abs([day |-> s[1], hour |-> s[2], minute |-> s[3], second |-> s[4]])
    /\ configs = SPAWN_CONFIGS
    /\ deferred_shutdown = "unknown"
    /\ InitManager

\* ------------------------------------------------------ setup_schedules
\* The two jobs _add_spawn_schedule hands to scheduler.add_job for one config
JobsFor(c, start_abs) ==
    << [id |-> c.job_id, name |-> <<c.name, "Spawn Notification">>,
        start_date |-> start_abs,
        interval |-> IntervalSeconds(c.interval_hours)],
       [id |-> c.followup_job_id, name |-> <<c.name, "Followup Notification">>,
        start_date |-> FollowupStart(start_abs),
        interval |-> IntervalSeconds(c.interval_hours)] >>

\* _add_spawn_schedule raises for this config
AddRaises(c, t, daysInMonth) == ~FirstFire(DateTimeOf(t), daysInMonth, c.interval_hours).ok

RECURSIVE AddSchedules(_, _, _, _)
\* the loop of setup_schedules from config i on: [jobs, raised]
AddSchedules(cs, i, t, daysInMonth) ==
    IF i > Len(cs) THEN [jobs |-> << >>, raised |-> FALSE]
    ELSE IF AddRaises(cs[i], t, daysInMonth) THEN [jobs |-> << >>, raised |-> TRUE]
    ELSE LET ff == FirstFire(DateTimeOf(t), daysInMonth, cs[i].interval_hours)
             rest == AddSchedules(cs, i + 1, t, daysInMonth)
         IN [jobs |-> JobsFor(cs[i], Abs(ff.dt)) \o rest.jobs, raised |-> rest.raised]

SetupSchedules ==
    /\ pc = "setup"
    /\ LET r == AddSchedules(configs, 1, now, dim) IN
        /\ pending_jobs' = pending_jobs \o r.jobs
        /\ pc' = IF r.raised THEN "failed" ELSE "start"
        /\ ev' = Event("setup_schedules", r.raised, FALSE, << >>)
    /\ UNCHANGED << now, dim, configs, deferred_shutdown, is_running, sched_state,
                    jobstore, tasks, shutdown_pending, stop_returned,
                    target_channel, skipped, last_called >>

\* ----------------------------------------- the first-fire computation alone
ProbeInstants ==
    { Abs([day |-> d, hour |-> h, minute |-> ms[1], second |-> ms[2]]) :
        d \in {1, 27, 28, 29, 30, 31}, h \in 0..23,
        ms \in { <<0, 0>>, <<9, 59>>, <<10, 0>>, <<10, 1>>, <<59, 59>> } }

InitResolve ==
    /\ dim \in 28..31
    /\ now \in {t \in ProbeInstants : DateTimeOf(t).day <= dim}
    /\ \E i \in 1..MaxIntervalHours :
          configs = << [name |-> "probe", interval_hours |-> i,
                        job_id |-> "probe_spawn", followup_job_id |-> "probe_followup"] >>
    /\ deferred_shutdown = "unknown"
    /\ InitManager

NextResolve == SetupSchedules

SpecResolve == InitResolve /\ [][NextResolve]_vars

\* ------------------------------------------------ first-fire time: claims
\* START_TIME on the calendar day of instant t, as an instant
AnchorInstant(t) == (t \div DaySeconds) * DaySeconds + START_HOUR * HourSeconds + START_MINUTE * 60

\* the warning job registered for config i
WarningJob(i) == pending_jobs[2 * i - 1]
FollowupJob(i) == pending_jobs[2 * i]
Registered(i) == 2 * i <= Len(pending_jobs)

\* s is on the anchor grid of interval_hours and strictly after t
OnGridAfter(s, t, interval_hours) ==
    /\ s > t
    /\ s >= AnchorInstant(t)
    /\ (s - AnchorInstant(t)) % (interval_hours * HourSeconds) = 0

\* C1: for every start instant and every interval_hours >= 1 the first-fire
\* time is produced without error, is strictly after now and lies on the
\* anchor grid (anchor + k * interval_hours hours, k >= 0).
C1_FirstFireAlwaysProduced ==
    pc # "setup" =>
        /\ pc = "start"
        /\ \A i \in DOMAIN configs :
              /\ Registered(i)
              /\ OnGridAfter(WarningJob(i).start_date, now, configs[i].interval_hours)

\* C2: whenever a first-fire time is computed it is the smallest grid point
\* anchor + k * interval_hours hours (k >= 0) strictly after now: it is on
\* the grid, after now, and the grid point before it (if any) is not after now.
C2_FirstFireIsNextGridPoint ==
    \A i \in DOMAIN configs :
        (pc = "start" /\ Registered(i)) =>
            LET s == WarningJob(i).start_date
                step == configs[i].interval_hours * HourSeconds
            IN /\ OnGridAfter(s, now, configs[i].interval_hours)
               /\ (s = AnchorInstant(now) \/ s - step <= now)

\* C2 witness: a first-fire time that rolled over to the following day
C2_Witness_NextDay ==
    /\ pc = "start"
    /\ Registered(1)
    /\ WarningJob(1).start_date \div DaySeconds > now \div DaySeconds
    /\ now >= AnchorInstant(now)

\* C14: when now is exactly the anchor of the day, the anchor counts as
\* passed: registration succeeds whenever anchor + interval_hours is on the
\* same day, and the first-fire time produced is anchor + interval_hours
\* hours, never the anchor itself.
C14_NowAtAnchorSchedulesNextPeriod ==
    \A i \in DOMAIN configs :
        (pc # "setup" /\ now = AnchorInstant(now)) =>
            /\ START_HOUR + configs[i].interval_hours < 24 => pc = "start"
            /\ (pc = "start" /\ Registered(i)) =>
                  /\ WarningJob(i).start_date = now + configs[i].interval_hours * HourSeconds
                  /\ WarningJob(i).start_date # AnchorInstant(now)

\* C14 witness: now = 12:10:00, interval 2 h, first fire 14:10:00 the same day
C14_Witness_TwoHoursAfterAnchor ==
    /\ pc = "start"
    /\ Registered(1)
    /\ now = AnchorInstant(now)
    /\ configs[1].interval_hours = 2
    /\ DateTimeOf(WarningJob(1).start_date) =
          [day |-> DateTimeOf(now).day, hour |-> 14, minute |-> 10, second |-> 0]

\* C15: when START_TIME.hour + intervals_passed * interval_hours is 24 or
\* more, registration succeeds and the first-fire time is the calendar
\* instant anchor + intervals_passed * interval_hours hours, on whatever day,
\* month or year that falls.
C15_DayOverflowIsCalendarCorrect ==
    \A i \in DOMAIN configs :
        LET nowdt == DateTimeOf(now)
            hours == IntervalsPassed(nowdt, configs[i].interval_hours)
                        * configs[i].interval_hours
        IN (pc # "setup" /\ now >= AnchorInstant(now) /\ START_HOUR + hours >= 24) =>
              /\ pc = "start"
              /\ Registered(i)
              /\ WarningJob(i).start_date = AnchorInstant(now) + hours * HourSeconds

\* ------------------------------------------------- the scheduler's triggers
\* IntervalTrigger.get_next_fire_time(None, now), used when start() adds a job
FirstRunTime(start_date, interval, t) ==
    IF start_date > t THEN start_date
    ELSE IF interval > 0
    THEN start_date + ((t - start_date + interval - 1) \div interval) * interval
    ELSE start_date + ((t - start_date) \div (0 - interval)) * (0 - interval)

\* a trigger that counts the interval from the time of the wakeup
NextRunTimeFromNow(previous, interval) == now + interval

\* a trigger that hands back the run time it was given
NextRunTimeSame(previous, interval) == previous

\* IntervalTrigger.get_next_fire_time(previous_fire_time, now)
NextRunTime(previous, interval) == previous + interval

\* number of run times of the job that are due at t
DueCount(job, t) ==
    IF job.next_run_time <= t THEN ((t - job.next_run_time) \div job.interval) + 1 ELSE 0

\* without coalescing the oldest due run time comes first
OldestRunTime(job, t) == job.next_run_time

\* coalesce=True: of the due run times only the last one is submitted
CoalescedRunTime(job, t) == job.next_run_time + (DueCount(job, t) - 1) * job.interval

\* the unfinished coroutines of all jobs counted together
InstancesOfAllJobs(ts, id) == Cardinality(ts)

\* the unfinished coroutines of one job
Instances(ts, id) == Cardinality({x \in ts : x.id = id})

\* no limit on running instances
CanSubmitAlways(ts, id) == TRUE

\* max_instances=1: a job with that many unfinished coroutines is not submitted
CanSubmit(ts, id) == Instances(ts, id) < MaxInstances

\* misfire_grace_time=60: a run time older than that when the coroutine
\* starts is reported missed and the job function is not called
Misfired(rt, t) == t - rt > MisfireGraceTime

Submitted == {x \in tasks : x.st = "submitted"}
Awaiting == {x \in tasks : x.st = "awaiting"}

\* nothing is queued on the event loop for immediate execution
LoopIdle == ~shutdown_pending /\ Submitted = {}

\* ------------------------------------------------------------------ start
\* a job store that replaces a job of the same id
ConflictsNever(store, id) == FALSE

\* MemoryJobStore.add_job: an id already in the store is a ConflictingIdError
Conflicts(store, id) == id \in DOMAIN store

RECURSIVE RealAddJobs(_, _, _, _)
\* scheduler.start() moves the pending jobs into the job store, one by one;
\* an id already in the store raises ConflictingIdError
RealAddJobs(pj, i, store, t) ==
    IF i > Len(pj) THEN [store |-> store, raised |-> FALSE]
    ELSE IF Conflicts(store, pj[i].id) THEN [store |-> store, raised |-> TRUE]
    ELSE RealAddJobs(pj, i + 1,
            store @@ (pj[i].id :>
                [name |-> pj[i].name,
                 start_date |-> pj[i].start_date, interval |-> pj[i].interval,
                 next_run_time |-> FirstRunTime(pj[i].start_date, pj[i].interval, t)]),
            t)

\* start() without its guard
StartUnguarded == TRUE

\* the guard of start(): the scheduler is started only when not running
StartGuard == ~is_running

\* a setup_hook that goes on to start() after setup_schedules has raised
StartReachedAlways == pc \in {"start", "done", "failed"}

\* setup_hook calls start() after setup_schedules has returned; later calls
\* find the manager already started
StartReached == pc \in {"start", "done"}

Start ==
    /\ StartReached
    /\ stop_returned' = FALSE
    /\ IF StartGuard
       THEN IF sched_state # "STATE_STOPPED"
            THEN \* SchedulerAlreadyRunningError, logged and re-raised
                 /\ ev' = Event("start", TRUE, FALSE, << >>)
                 /\ pc' = IF pc = "start" THEN "failed" ELSE pc
                 /\ UNCHANGED << is_running, sched_state, pending_jobs, jobstore >>
            ELSE LET r == RealAddJobs(pending_jobs, 1, jobstore, now) IN
                 /\ jobstore' = r.store
                 /\ ev' = Event("start", r.raised, FALSE, << >>)
                 /\ pc' = IF pc = "start" THEN (IF r.raised THEN "failed" ELSE "done") ELSE pc
                 /\ pending_jobs' = IF r.raised THEN pending_jobs ELSE << >>
                 /\ sched_state' = IF r.raised THEN sched_state ELSE "STATE_RUNNING"
                 /\ is_running' = IF r.raised THEN is_running ELSE TRUE
       ELSE /\ ev' = Event("start", FALSE, TRUE, << >>)
            /\ pc' = IF pc = "start" THEN "done" ELSE pc
            /\ UNCHANGED << is_running, sched_state, pending_jobs, jobstore >>
    /\ UNCHANGED << now, dim, configs, deferred_shutdown, tasks, shutdown_pending,
                    target_channel, skipped, last_called >>

\* ------------------------------------------------------------ the timing loop
Lateness == {0, MisfireGraceTime, MisfireGraceTime + 1}

MinStart == CHOOSE m \in {jobstore[j].start_date : j \in DOMAIN jobstore} :
                \A j \in DOMAIN jobstore : m <= jobstore[j].start_date

Horizon == MinStart + MaxElapsedHours * HourSeconds + FollowupMinutes * 60 + MisfireGraceTime + 1

Targets ==
    { jobstore[j].next_run_time + k * jobstore[j].interval + l :
        j \in DOMAIN jobstore, k \in 0..MaxMissed, l \in Lateness }

DueJobs == {j \in DOMAIN jobstore : jobstore[j].next_run_time <= now}

\* time passes while the event loop sleeps (or the process is paused); a
\* running scheduler's timer has expired once a job is due, so its wakeup
\* runs before the loop sleeps again
Advance ==
    /\ pc = "done"
    /\ LoopIdle
    /\ DOMAIN jobstore # {}
    /\ sched_state = "STATE_RUNNING" => DueJobs = {}
    /\ \E t \in Targets : t > now /\ t <= Horizon /\ now' = t
    /\ ev' = Event("advance", FALSE, FALSE, << >>)
    /\ UNCHANGED << dim, configs, deferred_shutdown, pc, is_running, sched_state,
                    pending_jobs, jobstore, tasks, shutdown_pending, stop_returned,
                    target_channel, skipped, last_called >>

\* the scheduler's wakeup: every due job is submitted to the executor (or
\* skipped when max_instances is reached) and its next run time is advanced
Wakeup ==
    /\ sched_state = "STATE_RUNNING"
    /\ LoopIdle
    /\ DueJobs # {}
    /\ LET sub == {j \in DueJobs : CanSubmit(tasks, j)}
           rt(j) == CoalescedRunTime(jobstore[j], now)
       IN /\ tasks' = tasks \cup
                { [id |-> j, rt |-> rt(j), due |-> DueCount(jobstore[j], now),
                   st |-> "submitted"] : j \in sub }
          /\ skipped' = skipped \cup { <<j, rt(j)>> : j \in DueJobs \ sub }
          /\ jobstore' = [j \in DOMAIN jobstore |->
                IF j \in DueJobs
                THEN [jobstore[j] EXCEPT
                        !.next_run_time = NextRunTime(rt(j), jobstore[j].interval)]
                ELSE jobstore[j]]
          /\ ev' = Event("wakeup", FALSE, FALSE,
                [j \in DueJobs |->
                    [due |-> DueCount(jobstore[j], now), rt |-> rt(j),
                     late |-> now - rt(j),
                     res |-> IF j \in sub THEN "submitted" ELSE "skipped"]])
    /\ UNCHANGED << now, dim, configs, deferred_shutdown, pc, is_running, sched_state,
                    pending_jobs, shutdown_pending, stop_returned, target_channel,
                    last_called >>

\* send_spawn_message without its test of target_channel
SendsToTransportAlways == TRUE

\* send_spawn_message returns at once when there is no target channel
SendsToTransport == target_channel

\* the first step of every submitted job coroutine: the misfire check, then
\* _send_spawn_notification calls message_callback, which awaits the transport
RunSubmitted ==
    /\ Submitted # {}
    /\ LET started == {x \in Submitted : ~Misfired(x.rt, now)}
           ids == {x.id : x \in Submitted}
           of(j) == CHOOSE x \in Submitted : x.id = j
       IN /\ tasks' = (tasks \ Submitted) \cup
                (IF SendsToTransport
                 THEN {[x EXCEPT !.st = "awaiting"] : x \in started} ELSE {})
          /\ last_called' = [j \in DOMAIN last_called |->
                IF j \in ids /\ of(j) \in started THEN of(j).rt ELSE last_called[j]]
          /\ ev' = Event("run", FALSE, FALSE,
                [j \in ids |->
                    [due |-> of(j).due, rt |-> of(j).rt, late |-> now - of(j).rt,
                     res |-> IF Misfired(of(j).rt, now) THEN "missed"
                             ELSE IF SendsToTransport THEN "in_flight"
                             ELSE "no_channel"]])
    /\ UNCHANGED << now, dim, configs, deferred_shutdown, pc, is_running, sched_state,
                    pending_jobs, jobstore, shutdown_pending, stop_returned,
                    target_channel, skipped >>

\* results of target_channel.send
SendOutcomes == {"ok", "Forbidden", "HTTPException", "Exception"}

\* the except clauses of send_spawn_message
BotCatches(e) == e \in {"Forbidden", "HTTPException", "Exception"}

\* the except clause of _send_spawn_notification
ManagerCatches(e) == e \in {"Forbidden", "HTTPException", "Exception"}

\* the transport answers an in-flight send; the job coroutine finishes
DispatchComplete ==
    /\ LoopIdle
    /\ \E x \in Awaiting, e \in SendOutcomes :
        /\ tasks' = tasks \ {x}
        /\ ev' = Event("complete",
                       e # "ok" /\ ~BotCatches(e) /\ ~ManagerCatches(e), FALSE,
                       (x.id :> [due |-> x.due, rt |-> x.rt, late |-> 0,
                                 res |-> IF e = "ok" THEN "sent" ELSE "failed"]))
    /\ UNCHANGED << now, dim, configs, deferred_shutdown, pc, is_running, sched_state,
                    pending_jobs, jobstore, shutdown_pending, stop_returned,
                    target_channel, skipped, last_called >>

\* on_ready / on_guild_join: find_target_channel sets the channel when found
FindTargetChannel ==
    /\ pc = "done"
    /\ LoopIdle
    /\ \E found \in BOOLEAN : target_channel' = (target_channel \/ found)
    /\ ev' = Event("find_target_channel", FALSE, FALSE, << >>)
    /\ UNCHANGED << now, dim, configs, deferred_shutdown, pc, is_running, sched_state,
                    pending_jobs, jobstore, tasks, shutdown_pending, stop_returned,
                    skipped, last_called >>

\* ------------------------------------------------------------------- stop
\* what the event records for the coroutines a shutdown leaves unfinished
Unfinished(resAwaiting, resSubmitted) ==
    [j \in {x.id : x \in tasks} |->
        LET x == CHOOSE y \in tasks : y.id = j IN
        [due |-> x.due, rt |-> x.rt, late |-> 0,
         res |-> IF x.st = "awaiting" THEN resAwaiting ELSE resSubmitted]]

\* BaseScheduler.shutdown with the asyncio executor: the state becomes
\* stopped, unfinished job coroutines are cancelled, the job store is emptied
SchedulerShutdown ==
    /\ sched_state' = "STATE_STOPPED"
    /\ tasks' = {}
    /\ jobstore' = EmptyStore

\* the two behaviours of AsyncIOScheduler.shutdown()
ShutdownModes == {"deferred", "immediate"}

\* stop() without its guard
StopUnguarded == TRUE

\* the guard of stop(): the scheduler is shut down only when running
StopGuard == is_running

Stop ==
    /\ pc \in {"done", "failed"}
    /\ stop_returned' = TRUE
    /\ IF StopGuard
       THEN \E mode \in ShutdownModes :
            /\ deferred_shutdown \in {"unknown", mode}
            /\ deferred_shutdown' = mode
            /\ IF mode = "deferred"
               THEN \* shutdown() only queues the real shutdown on the event loop
                    /\ shutdown_pending' = TRUE
                    /\ is_running' = FALSE
                    /\ ev' = Event("stop", FALSE, FALSE, Unfinished("left_in_flight", "left_submitted"))
                    /\ UNCHANGED << sched_state, tasks, jobstore >>
               ELSE IF sched_state = "STATE_STOPPED"
                    THEN \* SchedulerNotRunningError, logged and swallowed
                         /\ ev' = Event("stop", FALSE, FALSE, << >>)
                         /\ UNCHANGED << shutdown_pending, is_running, sched_state,
                                         tasks, jobstore >>
                    ELSE /\ SchedulerShutdown
                         /\ is_running' = FALSE
                         /\ ev' = Event("stop", FALSE, FALSE, Unfinished("cancelled", "cancelled_unstarted"))
                         /\ UNCHANGED shutdown_pending
       ELSE /\ ev' = Event("stop", FALSE, TRUE, << >>)
            /\ UNCHANGED << deferred_shutdown, shutdown_pending, is_running,
                            sched_state, tasks, jobstore >>
    /\ UNCHANGED << now, dim, configs, pc, pending_jobs,
                    target_channel, skipped, last_called >>

\* the queued shutdown runs, after the coroutines queued before it
ShutdownRun ==
    /\ shutdown_pending
    /\ Submitted = {}
    /\ shutdown_pending' = FALSE
    /\ IF sched_state = "STATE_STOPPED"
       THEN /\ ev' = Event("shutdown", TRUE, FALSE, << >>)
            /\ UNCHANGED << sched_state, tasks, jobstore >>
       ELSE /\ SchedulerShutdown
            /\ ev' = Event("shutdown", FALSE, FALSE, Unfinished("cancelled", "cancelled_unstarted"))
    /\ UNCHANGED << now, dim, configs, deferred_shutdown, pc, is_running, pending_jobs,
                    stop_returned, target_channel, skipped, last_called >>

\* ------------------------------------------------------------- get_status
\* reading next_run_time of a job that is still pending (added to a scheduler
\* that was not started) is an AttributeError
StatusRaises == sched_state = "STATE_STOPPED" /\ Len(pending_jobs) > 0

\* the value get_status returns: the snapshot, or the error record of its
\* except clause; scheduler.get_jobs() lists the pending jobs of a stopped
\* scheduler and the job store of a started one
StatusOf ==
    IF StatusRaises
    THEN [error |-> TRUE]
    ELSE [error |-> FALSE,
          running |-> is_running,
          job_count |-> IF sched_state = "STATE_STOPPED" THEN Len(pending_jobs)
                        ELSE Cardinality(DOMAIN jobstore),
          jobs |-> IF sched_state = "STATE_STOPPED" THEN {}
                   ELSE { [id |-> j, name |-> jobstore[j].name,
                           next_run |-> jobstore[j].next_run_time] : j \in DOMAIN jobstore }]

GetStatus ==
    /\ ev' = [kind |-> "get_status", raised |-> FALSE, noop |-> FALSE,
              jobs |-> << >>, status |-> StatusOf]
    /\ UNCHANGED << now, dim, configs, deferred_shutdown, pc, is_running, sched_state,
                    pending_jobs, jobstore, tasks, shutdown_pending, stop_returned,
                    target_channel, skipped, last_called >>

Next ==
    \/ SetupSchedules
    \/ Start
    \/ Advance
    \/ Wakeup
    \/ RunSubmitted
    \/ DispatchComplete
    \/ FindTargetChannel
    \/ Stop
    \/ ShutdownRun
    \/ GetStatus

Spec == Init /\ [][Next]_vars

\* ------------------------------------------------------------ status reads
\* C13: get_status changes neither is_running nor any job nor anything else,
\* and in every state it returns a snapshot (never an error): running equals
\* is_running, job_count is the number of jobs the scheduler holds (two per
\* config after a successful setup_schedules), and every job is listed with
\* its id, name and next fire time.
C13_StatusIsPureSnapshot ==
    [][ev'.kind = "get_status" =>
          /\ UNCHANGED << now, dim, configs, deferred_shutdown, pc, is_running,
                          sched_state, pending_jobs, jobstore, tasks,
                          shutdown_pending, stop_returned, target_channel,
                          skipped, last_called >>
          /\ ~ev'.status.error
          /\ ev'.status.running = is_running
          /\ ev'.status.job_count = Len(pending_jobs) + Cardinality(DOMAIN jobstore)
          /\ pc = "start" => ev'.status.job_count = 2 * Len(configs)
          /\ sched_state # "STATE_STOPPED" =>
                \A j \in DOMAIN jobstore :
                    [id |-> j, name |-> jobstore[j].name,
                     next_run |-> jobstore[j].next_run_time] \in ev'.status.jobs
    ]_vars

\* ------------------------------------- registration of other schedule tables
\* one entry of a schedule table
SpawnConfig(name, interval_hours, job_id, followup_job_id) ==
    [name |-> name, interval_hours |-> interval_hours,
     job_id |-> job_id, followup_job_id |-> followup_job_id]

\* schedule tables of two entries: a well-formed one, three with an id used
\* twice, and two with an interval_hours below 1
ConfigTables ==
    { << SpawnConfig("A", 2, "a_spawn", "a_followup"),
         SpawnConfig("B", 3, "b_spawn", "b_followup") >>,
      << SpawnConfig("A", 2, "a_spawn", "a_followup"),
         SpawnConfig("B", 3, "a_spawn", "b_followup") >>,
      << SpawnConfig("A", 2, "a_spawn", "a_followup"),
         SpawnConfig("B", 3, "b_spawn", "a_followup") >>,
      << SpawnConfig("A", 2, "a_spawn", "a_followup"),
         SpawnConfig("B", 3, "b_spawn", "b_spawn") >>,
      << SpawnConfig("A", 2, "a_spawn", "a_followup"),
         SpawnConfig("B", 0, "b_spawn", "b_followup") >>,
      << SpawnConfig("A", 0 - 1, "a_spawn", "a_followup"),
         SpawnConfig("B", 3, "b_spawn", "b_followup") >> }

\* start instants before, at and after the anchor of the day
ConfigInstants ==
    { <<1, 11, 0, 0>>, <<1, 12, 10, 0>>, <<1, 14, 0, 0>>, <<2, 23, 30, 0>> }

InitConfig ==
    /\ dim = 30
    /\ \E s \in ConfigInstants :
          now = Abs([day |-> s[1], hour |-> s[2], minute |-> s[3], second |-> s[4]])
    /\ configs \in ConfigTables
    /\ deferred_shutdown = "unknown"
    /\ InitManager

\* setup_hook and close on such a table, without the passing of time
NextConfig ==
    \/ SetupSchedules
    \/ Start
    \/ Stop
    \/ ShutdownRun
    \/ GetStatus

SpecConfig == InitConfig /\ [][NextConfig]_vars

\* the ids of all jobs of a schedule table, in registration order
JobIdSeq(cs) ==
    [k \in 1..(2 * Len(cs)) |->
        IF k % 2 = 1 THEN cs[(k + 1) \div 2].job_id ELSE cs[k \div 2].followup_job_id]

HasDuplicateIds(cs) ==
    \E k1, k2 \in DOMAIN JobIdSeq(cs) : k1 # k2 /\ JobIdSeq(cs)[k1] = JobIdSeq(cs)[k2]

\* C11 (as stated): with an id used twice in the table, setup_schedules
\* raises, start() is never reached and the scheduler never runs.
C11_DuplicateIdFailsAtRegistration ==
    HasDuplicateIds(configs) =>
        /\ pc \in {"setup", "failed"}
        /\ ev.kind = "setup_schedules" => ev.raised
        /\ ev.kind # "start"
        /\ ~is_running
        /\ sched_state = "STATE_STOPPED"

\* C11 (amended): with an id used twice in the table, setup_schedules does
\* not notice it (it raises only when a first-fire computation raises); the
\* start() that setup_hook calls next raises, and the scheduler never runs.
C11_DuplicateIdFailsAtStart ==
    HasDuplicateIds(configs) =>
        /\ ev.kind = "setup_schedules" =>
              ev.raised = (\E i \in DOMAIN configs : AddRaises(configs[i], now, dim))
        /\ ev.kind = "start" => (ev.raised /\ pc = "failed")
        /\ pc # "done"
        /\ ~is_running
        /\ sched_state = "STATE_STOPPED"

\* C11 witness: start() has raised on a table with an id used twice
C11_Witness_StartRaised ==
    /\ HasDuplicateIds(configs)
    /\ ev.kind = "start"
    /\ ev.raised
    /\ Len(pending_jobs) = 2 * Len(configs)

HasInvalidInterval(cs) == \E i \in DOMAIN cs : cs[i].interval_hours < 1

\* C12: with an interval_hours below 1 in the table, setup_schedules raises
\* for every start instant, start() is never reached and the scheduler
\* never runs.
C12_InvalidIntervalFailsAtRegistration ==
    HasInvalidInterval(configs) =>
        /\ pc \in {"setup", "failed"}
        /\ ev.kind = "setup_schedules" => ev.raised
        /\ ev.kind # "start"
        /\ ~is_running
        /\ sched_state = "STATE_STOPPED"

\* ------------------------------------------------------------ runtime claims
\* the config a job id belongs to, and its period in seconds
ConfigOfJob(j) ==
    CHOOSE i \in DOMAIN configs : configs[i].job_id = j \/ configs[i].followup_job_id = j
PeriodOfJob(j) == configs[ConfigOfJob(j)].interval_hours * HourSeconds

\* t is start + k * period for an integer k >= 0
OnGrid(t, start, period) == t >= start /\ (t - start) % period = 0

\* C3: for every spec the follow-up job's grid is the warning job's grid
\* shifted by exactly 5 minutes with the same period, and every next run
\* time and every submitted run time of either job lies on its grid, so the
\* k-th follow-up fire time is the k-th warning fire time plus 5 minutes
\* whatever fires, skips and coalesced misfires happened.
C3_FollowupFiveMinutesAfterWarning ==
    \A i \in DOMAIN configs :
        LET w == configs[i].job_id
            f == configs[i].followup_job_id
            period == configs[i].interval_hours * HourSeconds
        IN (w \in DOMAIN jobstore /\ f \in DOMAIN jobstore) =>
            /\ jobstore[f].start_date = jobstore[w].start_date + FollowupMinutes * 60
            /\ jobstore[w].interval = period
            /\ jobstore[f].interval = period
            /\ OnGrid(jobstore[w].next_run_time, jobstore[w].start_date, period)
            /\ OnGrid(jobstore[f].next_run_time,
                      jobstore[w].start_date + FollowupMinutes * 60, period)
            /\ \A x \in tasks :
                  /\ x.id = w => OnGrid(x.rt, jobstore[w].start_date, period)
                  /\ x.id = f => OnGrid(x.rt, jobstore[w].start_date + FollowupMinutes * 60,
                                        period)

\* C3 witness: a warning occurrence was skipped, its follow-up ran, and both
\* jobs have moved past their first occurrence
C3_Witness_AfterSkip ==
    \E i \in DOMAIN configs :
        LET w == configs[i].job_id
            f == configs[i].followup_job_id
        IN /\ w \in DOMAIN jobstore /\ f \in DOMAIN jobstore
           /\ \E o \in skipped : o[1] = w
           /\ last_called[f] > jobstore[f].start_date
           /\ jobstore[w].next_run_time > jobstore[w].start_date

\* C4: a start() call made while is_running is true raises nothing, does not
\* start the underlying scheduler again and changes neither the running
\* state nor the jobs; is_running is true afterwards and one scheduler runs.
C4_StartIdempotent ==
    [][(ev'.kind = "start" /\ is_running) =>
          /\ ~ev'.raised
          /\ ev'.noop
          /\ is_running'
          /\ sched_state' = "STATE_RUNNING"
          /\ UNCHANGED << sched_state, jobstore, pending_jobs, tasks, shutdown_pending >>
      ]_vars

\* C4 witness: start() was called on a running manager that holds jobs
C4_Witness_SecondStart ==
    /\ ev.kind = "start"
    /\ ev.noop
    /\ is_running
    /\ DOMAIN jobstore # {}

\* C5: a stop() call made while is_running is false (never started, or
\* stopped before) raises nothing, does not shut the scheduler down again
\* and leaves the state as it was.
C5_StopIdempotent ==
    [][(ev'.kind = "stop" /\ ~is_running) =>
          /\ ~ev'.raised
          /\ ev'.noop
          /\ ~is_running'
          /\ UNCHANGED << sched_state, jobstore, pending_jobs, tasks, shutdown_pending >>
      ]_vars

\* C5 witness: stop() called again after an earlier stop() of a started manager
C5_Witness_SecondStop ==
    /\ ev.kind = "stop"
    /\ ev.noop
    /\ pc = "done"
    /\ ~is_running

\* C6: when stop() is called while a dispatch is in flight it returns only
\* after that dispatch has completed: a returning stop() leaves no dispatch
\* in flight and has cancelled none.
C6_StopWaitsForInFlightDispatch ==
    ev.kind = "stop" =>
        \A j \in DOMAIN ev.jobs : ev.jobs[j].res \notin {"left_in_flight", "cancelled"}

\* C7: once stop() has returned (and until start() is called again) no job
\* is fired and message_callback is not called.
C7_NoCallbackAfterStop ==
    [][stop_returned => (ev'.kind # "wakeup" /\ last_called' = last_called)]_vars

\* C8: no job ever has more than one unfinished callback, and an occurrence
\* skipped because the previous callback was still running is never
\* submitted or called later: the job's next run time is already past it.
C8_AtMostOneInstanceAndSkipsLost ==
    /\ \A j \in JobIdsOf(configs) : Instances(tasks, j) <= 1
    /\ \A o \in skipped :
          /\ \A x \in tasks : ~(x.id = o[1] /\ x.rt = o[2])
          /\ last_called[o[1]] # o[2]
          /\ o[1] \in DOMAIN jobstore => jobstore[o[1]].next_run_time > o[2]

\* C8 witness: an occurrence was skipped while the earlier callback of the
\* same job is still in flight
C8_Witness_SkippedWhileInFlight ==
    \E o \in skipped : \E x \in Awaiting : x.id = o[1] /\ x.rt < o[2]

C10_FailedSendSwallowed ==
    [][/\ (ev'.kind = "complete") =>
              /\ ~ev'.raised
              /\ UNCHANGED << is_running, sched_state, jobstore, last_called >>
              /\ tasks' \subseteq tasks
              /\ \A j \in DOMAIN ev'.jobs :
                    j \in DOMAIN jobstore =>
                        /\ jobstore[j].next_run_time >= ev'.jobs[j].rt + PeriodOfJob(j)
                        /\ OnGrid(jobstore[j].next_run_time, ev'.jobs[j].rt, PeriodOfJob(j))
       /\ (ev'.kind = "wakeup") =>
              \A j \in DOMAIN ev'.jobs :
                  jobstore'[j].next_run_time = ev'.jobs[j].rt + PeriodOfJob(j)
       /\ (ev'.kind = "run") =>
              \A j \in DOMAIN ev'.jobs :
                  ev'.jobs[j].res # "missed" => ev'.jobs[j].rt > last_called[j]
      ]_vars

\* C10 witness: a send failed and the manager is still running
C10_Witness_FailedSend ==
    /\ ev.kind = "complete"
    /\ \E j \in DOMAIN ev.jobs : ev.jobs[j].res = "failed"
    /\ is_running
    /\ sched_state = "STATE_RUNNING"


\* C16: every job's next fire time is its first-fire time plus a whole
\* number (>= 0) of its intervals, whatever fires, skips, coalesced misfires
\* and failed dispatches came before, and no step moves it backwards or
\* changes the first-fire time it is counted from.
C16_NextFireOnGridAndForward ==
    /\ [](\A j \in DOMAIN jobstore :
            OnGrid(jobstore[j].next_run_time, jobstore[j].start_date, PeriodOfJob(j)))
    /\ [][\/ jobstore' = jobstore
          \/ \A j \in DOMAIN jobstore \cap DOMAIN jobstore' :
                /\ jobstore'[j].next_run_time >= jobstore[j].next_run_time
                /\ jobstore'[j].start_date = jobstore[j].start_date
       ]_vars

\* C16 witness: a job whose occurrence was skipped for overlap, whose next
\* fire time has moved past it, and whose dispatch has then failed
C16_Witness_AdvancedAfterSkipAndFailure ==
    \E j \in DOMAIN jobstore : \E sk \in skipped :
        /\ sk[1] = j
        /\ jobstore[j].next_run_time = sk[2] + PeriodOfJob(j)
        /\ jobstore[j].next_run_time >= jobstore[j].start_date + 2 * PeriodOfJob(j)
        /\ ev.kind = "complete"
        /\ j \in DOMAIN ev.jobs
        /\ ev.jobs[j].res = "failed"

\* C17: jobs are independent.  A running scheduler lets no time pass while a
\* job is due, whatever callbacks are in flight; its wakeup starts every due
\* job that has no unfinished callback of its own, however many callbacks of
\* other jobs are in flight, and leaves the jobs that are not due alone; and
\* a callback that ends, with or without an error, raises nothing into the
\* loop, leaves the scheduler running and changes no job's next fire time
\* and no other callback.
C17_JobsAreIndependent ==
    [][/\ (ev'.kind = "advance" /\ sched_state = "STATE_RUNNING") =>
             \A j \in DOMAIN jobstore : jobstore[j].next_run_time > now
       /\ ev'.kind = "wakeup" =>
             \A j \in DOMAIN jobstore :
                IF jobstore[j].next_run_time <= now
                THEN /\ j \in DOMAIN ev'.jobs
                     /\ jobstore'[j].next_run_time > now
                     /\ (ev'.jobs[j].res = "submitted") = ({x \in tasks : x.id = j} = {})
                     /\ (ev'.jobs[j].res = "submitted") =
                            (\E x \in tasks' \ tasks : x.id = j /\ x.st = "submitted")
                ELSE jobstore'[j] = jobstore[j]
       /\ ev'.kind = "complete" =>
             /\ ~ev'.raised
             /\ jobstore' = jobstore
             /\ sched_state' = sched_state /\ is_running' = is_running
             /\ \E x \in tasks : x.id \in DOMAIN ev'.jobs /\ tasks' = tasks \ {x}
    ]_vars

\* C17 witness: a due job has just been submitted while the callback of
\* another job, started at an earlier time, is still in flight
C17_Witness_FiredWhileOtherInFlight ==
    /\ ev.kind = "wakeup"
    /\ \E j \in DOMAIN ev.jobs : \E x \in Awaiting :
          /\ x.id # j
          /\ x.rt < ev.jobs[j].rt
          /\ ev.jobs[j].res = "submitted"
          /\ ev.jobs[j].late = 0

\* C18: a send to the transport is in flight only while target_channel is
\* set.  A job that fires while it is not set has its callback called and
\* finished without a send: nothing of it is kept, its next fire time is the
\* run time plus the interval exactly as for a fire that is sent, and the
\* step that finds the channel sends nothing and starts nothing.
C18_NoChannelNoSendNoRetry ==
    /\ [](Awaiting # {} => target_channel)
    /\ [](ev.kind = "run" =>
            \A j \in DOMAIN ev.jobs :
                /\ (ev.jobs[j].res = "no_channel") = (~target_channel /\ ev.jobs[j].late <= MisfireGraceTime)
                /\ (ev.jobs[j].res = "in_flight") = (target_channel /\ ev.jobs[j].late <= MisfireGraceTime)
                /\ ev.jobs[j].res = "no_channel" =>
                      /\ \A x \in tasks : x.id # j
                      /\ last_called[j] = ev.jobs[j].rt
                /\ (ev.jobs[j].res \in {"no_channel", "in_flight"} /\ j \in DOMAIN jobstore) =>
                      jobstore[j].next_run_time = ev.jobs[j].rt + PeriodOfJob(j))
    /\ [][ev'.kind = "find_target_channel" =>
             /\ tasks' = tasks
             /\ jobstore' = jobstore
             /\ last_called' = last_called
             /\ skipped' = skipped]_vars

\* C18 witness: a job on time has fired while no channel was set: its
\* callback was called, nothing is in flight or kept for it, and its next
\* fire time is one interval after the lost occurrence
C18_Witness_FiredWithoutChannel ==
    /\ ev.kind = "run"
    /\ ~target_channel
    /\ \E j \in DOMAIN ev.jobs :
          /\ ev.jobs[j].res = "no_channel"
          /\ ev.jobs[j].late = 0
          /\ last_called[j] = ev.jobs[j].rt
          /\ \A x \in tasks : x.id # j
          /\ jobstore[j].next_run_time = ev.jobs[j].rt + PeriodOfJob(j)

\* C19: in every state is_running is true exactly when the underlying
\* scheduler is running; a start() that raised leaves it false, and it is
\* false after stop() only once the scheduler has really shut down.
C19_IsRunningAgreesWithScheduler ==
    /\ is_running = (sched_state = "STATE_RUNNING")
    /\ (ev.kind = "start" /\ ev.raised) => ~is_running
    /\ (ev.kind = "stop" /\ ~is_running) => sched_state = "STATE_STOPPED"

\* C20: when _add_spawn_schedule raises for the k-th config, setup_schedules
\* raises, the jobs of the configs before it (and only they) stay registered
\* in the scheduler, start() is never called, the scheduler never runs and
\* no callback of those jobs is ever started.
C20_PartialRegistrationNeverFires ==
    /\ (ev.kind = "setup_schedules" /\ ev.raised) => pc = "failed"
    /\ pc = "failed" =>
          /\ ev.kind \notin {"start", "advance", "wakeup", "run", "complete"}
          /\ ~is_running
          /\ sched_state = "STATE_STOPPED"
          /\ jobstore = EmptyStore
          /\ tasks = {}
          /\ \A j \in DOMAIN last_called : last_called[j] = 0 - 1
          /\ \E k \in DOMAIN configs :
                /\ AddRaises(configs[k], now, dim)
                /\ Len(pending_jobs) = 2 * (k - 1)
                /\ \A i \in 1..(k - 1) :
                      /\ ~AddRaises(configs[i], now, dim)
                      /\ WarningJob(i).id = configs[i].job_id
                      /\ FollowupJob(i).id = configs[i].followup_job_id

\* C20 witness: the second config has raised, the two jobs of the first are
\* registered, and close() has since called stop()
C20_Witness_FirstConfigRegistered ==
    /\ pc = "failed"
    /\ Len(pending_jobs) = 2
    /\ WarningJob(1).id = configs[1].job_id
    /\ AddRaises(configs[2], now, dim)
    /\ ev.kind = "stop"
====
